---------------------------- MODULE Spec2Model ----------------------------
(***************************************************************************)
(* Lockable LRU (ThreadunsafeLLRU): a fixed-capacity cache made of an      *)
(* unlocked pool (a hashicorp/golang-lru Cache, evicted in LRU order) and  *)
(* a locked pool (a wk8/go-ordered-map OrderedMap, never evicted), sharing *)
(* one capacity.                                                           *)
(*                                                                         *)
(* The engine's methods are operators from a cache value to a result       *)
(* record (new cache, return values, entries handed to the LRU's eviction  *)
(* callback); one action per public method applies the operator to the     *)
(* state.                                                                  *)
(***************************************************************************)
EXTENDS Integers, Sequences, FiniteSets

\* ------------------------------------------------------------- bounds
NumKeys == 3
NumVals == 2
MaxSize == 2
NumGoroutines == 2

KeySet == 1..NumKeys
ValSet == 1..NumVals

\* While the history of touched keys is followed the callers write one value:
\* no container orders or evicts by value, and the runs of Spec write every
\* value of ValSet
RecencyValSet == {1}

VARIABLES
    unlocked,   \* the lru.Cache: [items: entries oldest -> newest, size: its bound]
    locked,     \* the OrderedMap: entries in insertion order, oldest first
    size,       \* total size, combined locked and unlocked
    last,       \* the last call: its name, arguments, results and callbacks
    before,     \* the struct's value when the last call was made
    stored,     \* history: for each key of the cache, the value last written for it
    mark,       \* history: a touched key and the unlocked entries it was put behind
    lock,       \* the wrapper's mutex: the goroutine that holds it, or NoHolder
    callers,    \* each goroutine's place in a wrapper method, with its call
    seq         \* history: the wrapper's calls made one at a time, in the order
                \* in which their engine methods returned

vars == <<unlocked, locked, size, last, before, stored, mark, lock, callers, seq>>

\* ------------------------------------------------------------- entries
Entry(key, value) == [key |-> key, value |-> value]

\* Go's zero values of K and V, and the entry GetOldest yields on an empty lru
ZeroKey == 0
ZeroValue == 0
ZeroEntry == [key |-> ZeroKey, value |-> ZeroValue]

\* A Go pointer result (*Entry, *V, *K) is a sequence: <<>> is nil, <<x>> is &x
Nil == <<>>
Ptr(x) == <<x>>

Has(s, key) == \E i \in DOMAIN s : s[i].key = key

Without(s, key) == SelectSeq(s, LAMBDA e : e.key # key)

ValueOf(s, key) == s[CHOOSE i \in DOMAIN s : s[i].key = key].value

KeysOf(s) == {s[i].key : i \in DOMAIN s}

\* ------------------------------------------------ lru.Cache (unlocked pool)
\* GetOldest: the oldest entry, or the zero entry when the lru is empty
LruGetOldest(lru) == IF lru.items = <<>> THEN ZeroEntry ELSE Head(lru.items)

\* Add: an existing key is updated and moved to the front; a new key is
\* pushed and, when the list then exceeds the bound, the oldest is removed
LruAdd(lru, key, value) ==
    IF Has(lru.items, key)
    THEN [lru |-> [lru EXCEPT !.items = Append(Without(@, key), Entry(key, value))],
          evicted |-> FALSE, cb |-> <<>>]
    ELSE LET pushed == Append(lru.items, Entry(key, value))
             evict == Len(pushed) > lru.size
         IN  [lru |-> [lru EXCEPT !.items = IF evict THEN Tail(pushed) ELSE pushed],
              evicted |-> evict,
              cb |-> IF evict THEN <<Head(pushed)>> ELSE <<>>]

\* Resize: removes the oldest entries that exceed the new bound, sets the bound
LruResize(lru, n) ==
    LET diff == IF Len(lru.items) - n < 0 THEN 0 ELSE Len(lru.items) - n
    IN  [lru |-> [items |-> SubSeq(lru.items, diff + 1, Len(lru.items)), size |-> n],
         evicted |-> diff,
         cb |-> SubSeq(lru.items, 1, diff)]

\* Remove: removes the key if present (the removed entry goes to the callback)
LruRemove(lru, key) ==
    [lru |-> [lru EXCEPT !.items = Without(@, key)],
     present |-> Has(lru.items, key),
     cb |-> SelectSeq(lru.items, LAMBDA e : e.key = key)]

\* Get: a present key is moved to the front and its value returned
LruGet(lru, key) ==
    IF Has(lru.items, key)
    THEN [lru |-> [lru EXCEPT !.items =
                      Append(Without(@, key), Entry(key, ValueOf(lru.items, key)))],
          value |-> ValueOf(lru.items, key), ok |-> TRUE]
    ELSE [lru |-> lru, value |-> ZeroValue, ok |-> FALSE]

\* Contains: membership, without updating the recent-ness
LruContains(lru, key) == Has(lru.items, key)

\* RemoveOldest: removes and returns the oldest entry
LruRemoveOldest(lru) ==
    IF lru.items = <<>>
    THEN [lru |-> lru, entry |-> ZeroEntry, ok |-> FALSE, cb |-> <<>>]
    ELSE [lru |-> [lru EXCEPT !.items = Tail(@)], entry |-> Head(lru.items),
          ok |-> TRUE, cb |-> <<Head(lru.items)>>]

\* Values: the values, from oldest to newest
LruValues(lru) == [i \in DOMAIN lru.items |-> lru.items[i].value]

LruLen(lru) == Len(lru.items)

\* ------------------------------------------------ OrderedMap (locked pool)
\* Set: an existing key keeps its position and gets the value; a new key is
\* appended as the newest pair
MapSet(m, key, value) ==
    IF Has(m, key)
    THEN [i \in DOMAIN m |-> IF m[i].key = key THEN Entry(key, value) ELSE m[i]]
    ELSE Append(m, Entry(key, value))

MapDelete(m, key) == Without(m, key)

MapGet(m, key) ==
    IF Has(m, key) THEN [value |-> ValueOf(m, key), ok |-> TRUE]
    ELSE [value |-> ZeroValue, ok |-> FALSE]

MapLen(m) == Len(m)

\* ------------------------------------------------ ThreadunsafeLLRU
\* The struct's value in the current state
Cache == [unlocked |-> unlocked, locked |-> locked, size |-> size]

\* NewUnsafe / NewUnsafeWithEvict: an lru of the given size, an empty map
NewUnsafe(n) == [unlocked |-> [items |-> <<>>, size |-> n], locked |-> <<>>, size |-> n]

\* NewUnsafeWithEvict going on to build the struct without looking at the
\* error of lru.NewWithEvict
NewUnsafeWithEvictIgnoringErr(n) == [cache |-> Ptr(NewUnsafe(n)), err |-> Nil]

\* NewUnsafeWithEvict with the size it is given: lru.NewWithEvict returns an
\* error for a size that is not positive, and then nil is returned with the
\* error; otherwise a pointer to the struct and no error
NewUnsafeWithEvict(n) ==
    IF n <= 0
    THEN [cache |-> Nil, err |-> Ptr("must provide a positive size")]
    ELSE [cache |-> Ptr(NewUnsafe(n)), err |-> Nil]

\* What the variables hold when construction returned nil: no entries, no
\* room
NoCache == NewUnsafe(0)

\* What a method hands back: the struct after the call, its results (ok, the
\* evicted or removed *Entry, the *V, the *K) and the entries the lru passed
\* to its eviction callback during the call
Result(c, ok, evicted, value, key, cb) ==
    [c |-> c, ok |-> ok, evicted |-> evicted, value |-> value, key |-> key, cb |-> cb]

\* addOrUpdate reading the oldest entry after the Add instead of before it
addOrUpdateOldestAfterAdd(lru, key, value) ==
    LET ad == LruAdd(lru, key, value)
        oldest == LruGetOldest(ad.lru)
    IN  [lru |-> ad.lru,
         evicted |-> IF ad.evicted THEN Ptr(oldest) ELSE Nil,
         cb |-> ad.cb]

\* addOrUpdate returning the oldest entry of a non-empty lru without looking
\* at what the Add reported
addOrUpdateIgnoringWasEvicted(lru, key, value) ==
    LET oldest == LruGetOldest(lru)
        ad == LruAdd(lru, key, value)
    IN  [lru |-> ad.lru,
         evicted |-> IF lru.items # <<>> THEN Ptr(oldest) ELSE Nil,
         cb |-> ad.cb]

\* addOrUpdate: the oldest entry is read before the Add and returned if the
\* Add evicted
addOrUpdate(lru, key, value) ==
    LET oldest == LruGetOldest(lru)
        ad == LruAdd(lru, key, value)
    IN  [lru |-> ad.lru,
         evicted |-> IF ad.evicted THEN Ptr(oldest) ELSE Nil,
         cb |-> ad.cb]

\* resize: the oldest entry is read before the Resize and returned if the
\* Resize evicted at least one entry
resize(lru, n) ==
    LET oldest == LruGetOldest(lru)
        rs == LruResize(lru, n)
    IN  [lru |-> rs.lru,
         evicted |-> IF rs.evicted > 0 THEN Ptr(oldest) ELSE Nil,
         cb |-> rs.cb]

\* collectValues: the map's values from oldest to newest pair
collectValues(m) == [i \in DOMAIN m |-> m[i].value]

\* AddOrUpdateUnlocked computing hasRoom before the delete from the locked map
AddOrUpdateUnlockedRoomBeforeDelete(c, key, value) ==
    LET hasRoom == MapLen(c.locked) < c.size
        locked1 == MapDelete(c.locked, key)
        rs == LruResize(c.unlocked, c.size - MapLen(locked1))
        ad == addOrUpdate(rs.lru, key, value)
    IN  IF hasRoom
        THEN Result([c EXCEPT !.locked = locked1, !.unlocked = ad.lru],
                    TRUE, ad.evicted, Nil, Nil, rs.cb \o ad.cb)
        ELSE Result([c EXCEPT !.locked = locked1], FALSE, Nil, Nil, Nil, <<>>)

\* AddOrUpdateUnlocked resizing the lru to one less than the free room, to
\* make room for the entry before adding it
AddOrUpdateUnlockedShrinkFirst(c, key, value) ==
    LET locked1 == MapDelete(c.locked, key)
        hasRoom == MapLen(locked1) < c.size
        rs == LruResize(c.unlocked, c.size - MapLen(locked1) - 1)
        gr == LruResize(rs.lru, c.size - MapLen(locked1))
        ad == addOrUpdate(gr.lru, key, value)
    IN  IF hasRoom
        THEN Result([c EXCEPT !.locked = locked1, !.unlocked = ad.lru],
                    TRUE, ad.evicted, Nil, Nil, rs.cb \o ad.cb)
        ELSE Result([c EXCEPT !.locked = locked1], FALSE, Nil, Nil, Nil, <<>>)

\* AddOrUpdateUnlocked without the Resize that reclaims the slot freed by the
\* delete from the locked map
AddOrUpdateUnlockedNoResize(c, key, value) ==
    LET locked1 == MapDelete(c.locked, key)
        hasRoom == MapLen(locked1) < c.size
        ad == addOrUpdate(c.unlocked, key, value)
    IN  IF hasRoom
        THEN Result([c EXCEPT !.locked = locked1, !.unlocked = ad.lru],
                    TRUE, ad.evicted, Nil, Nil, ad.cb)
        ELSE Result([c EXCEPT !.locked = locked1], FALSE, Nil, Nil, Nil, <<>>)

\* AddOrUpdateUnlocked returning nil for the entry the Add evicted
AddOrUpdateUnlockedDropsEvicted(c, key, value) ==
    LET locked1 == MapDelete(c.locked, key)
        hasRoom == MapLen(locked1) < c.size
        rs == LruResize(c.unlocked, c.size - MapLen(locked1))
        ad == addOrUpdate(rs.lru, key, value)
    IN  IF hasRoom
        THEN Result([c EXCEPT !.locked = locked1, !.unlocked = ad.lru],
                    TRUE, Nil, Nil, Nil, rs.cb \o ad.cb)
        ELSE Result([c EXCEPT !.locked = locked1], FALSE, Nil, Nil, Nil, <<>>)

AddOrUpdateUnlocked(c, key, value) ==
    LET locked1 == MapDelete(c.locked, key)
        hasRoom == MapLen(locked1) < c.size
        rs == LruResize(c.unlocked, c.size - MapLen(locked1))
        ad == addOrUpdate(rs.lru, key, value)
    IN  IF hasRoom
        THEN Result([c EXCEPT !.locked = locked1, !.unlocked = ad.lru],
                    TRUE, ad.evicted, Nil, Nil, rs.cb \o ad.cb)
        ELSE Result([c EXCEPT !.locked = locked1], FALSE, Nil, Nil, Nil, <<>>)

\* AddOrUpdateLocked without the delete of the key from the locked map before
\* the capacity check
AddOrUpdateLockedNoDelete(c, key, value) ==
    LET hasRoom == MapLen(c.locked) < c.size
        rm == LruRemove(c.unlocked, key)
        locked2 == MapSet(c.locked, key, value)
        rs == resize(rm.lru, c.size - MapLen(locked2))
    IN  IF hasRoom
        THEN Result([c EXCEPT !.locked = locked2, !.unlocked = rs.lru],
                    TRUE, rs.evicted, Nil, Nil, rm.cb \o rs.cb)
        ELSE Result(c, FALSE, Nil, Nil, Nil, <<>>)

\* AddOrUpdateLocked resizing the lru before the key is removed from it
AddOrUpdateLockedResizeBeforeRemove(c, key, value) ==
    LET locked1 == MapDelete(c.locked, key)
        hasRoom == MapLen(locked1) < c.size
        locked2 == MapSet(locked1, key, value)
        rs == resize(c.unlocked, c.size - MapLen(locked2))
        rm == LruRemove(rs.lru, key)
    IN  IF hasRoom
        THEN Result([c EXCEPT !.locked = locked2, !.unlocked = rm.lru],
                    TRUE, rs.evicted, Nil, Nil, rs.cb \o rm.cb)
        ELSE Result([c EXCEPT !.locked = locked1], FALSE, Nil, Nil, Nil, <<>>)

\* AddOrUpdateLocked discarding what resize returned, as Lock does
AddOrUpdateLockedDropsEvicted(c, key, value) ==
    LET locked1 == MapDelete(c.locked, key)
        hasRoom == MapLen(locked1) < c.size
        rm == LruRemove(c.unlocked, key)
        locked2 == MapSet(locked1, key, value)
        rs == resize(rm.lru, c.size - MapLen(locked2))
    IN  IF hasRoom
        THEN Result([c EXCEPT !.locked = locked2, !.unlocked = rs.lru],
                    TRUE, Nil, Nil, Nil, rm.cb \o rs.cb)
        ELSE Result([c EXCEPT !.locked = locked1], FALSE, Nil, Nil, Nil, <<>>)

\* AddOrUpdateLocked without the resize of the lru after the Set
AddOrUpdateLockedNoResize(c, key, value) ==
    LET locked1 == MapDelete(c.locked, key)
        hasRoom == MapLen(locked1) < c.size
        rm == LruRemove(c.unlocked, key)
        locked2 == MapSet(locked1, key, value)
    IN  IF hasRoom
        THEN Result([c EXCEPT !.locked = locked2, !.unlocked = rm.lru],
                    TRUE, Nil, Nil, Nil, rm.cb)
        ELSE Result([c EXCEPT !.locked = locked1], FALSE, Nil, Nil, Nil, <<>>)

\* AddOrUpdateLocked without the Remove of the key from the lru
AddOrUpdateLockedNoRemove(c, key, value) ==
    LET locked1 == MapDelete(c.locked, key)
        hasRoom == MapLen(locked1) < c.size
        locked2 == MapSet(locked1, key, value)
        rs == resize(c.unlocked, c.size - MapLen(locked2))
    IN  IF hasRoom
        THEN Result([c EXCEPT !.locked = locked2, !.unlocked = rs.lru],
                    TRUE, rs.evicted, Nil, Nil, rs.cb)
        ELSE Result([c EXCEPT !.locked = locked1], FALSE, Nil, Nil, Nil, <<>>)

\* AddOrUpdateLocked taking hasRoom from the count of both pools
AddOrUpdateLockedRoomFromTotal(c, key, value) ==
    LET locked1 == MapDelete(c.locked, key)
        hasRoom == MapLen(locked1) + LruLen(c.unlocked) < c.size
        rm == LruRemove(c.unlocked, key)
        locked2 == MapSet(locked1, key, value)
        rs == resize(rm.lru, c.size - MapLen(locked2))
    IN  IF hasRoom
        THEN Result([c EXCEPT !.locked = locked2, !.unlocked = rs.lru],
                    TRUE, rs.evicted, Nil, Nil, rm.cb \o rs.cb)
        ELSE Result([c EXCEPT !.locked = locked1], FALSE, Nil, Nil, Nil, <<>>)

AddOrUpdateLocked(c, key, value) ==
    LET locked1 == MapDelete(c.locked, key)
        hasRoom == MapLen(locked1) < c.size
        rm == LruRemove(c.unlocked, key)
        locked2 == MapSet(locked1, key, value)
        rs == resize(rm.lru, c.size - MapLen(locked2))
    IN  IF hasRoom
        THEN Result([c EXCEPT !.locked = locked2, !.unlocked = rs.lru],
                    TRUE, rs.evicted, Nil, Nil, rm.cb \o rs.cb)
        ELSE Result([c EXCEPT !.locked = locked1], FALSE, Nil, Nil, Nil, <<>>)

\* Lock setting an already locked key again after a delete, as
\* AddOrUpdateLocked does
LockSetsLockedAgain(c, key) ==
    LET g == LruGet(c.unlocked, key)
        lg == MapGet(c.locked, key)
        rm == LruRemove(g.lru, key)
        locked1 == MapSet(MapDelete(c.locked, key), key, IF g.ok THEN g.value ELSE lg.value)
        rs == resize(rm.lru, c.size - MapLen(locked1))
    IN  IF ~g.ok /\ ~lg.ok
        THEN Result([c EXCEPT !.unlocked = g.lru], FALSE, Nil, Nil, Nil, <<>>)
        ELSE Result([c EXCEPT !.locked = locked1, !.unlocked = rs.lru],
                    TRUE, Nil, Nil, Nil, rm.cb \o rs.cb)

\* Lock without the Remove of the key from the lru
LockNoRemove(c, key) ==
    LET g == LruGet(c.unlocked, key)
        locked1 == MapSet(c.locked, key, g.value)
        rs == resize(g.lru, c.size - MapLen(locked1))
    IN  IF ~g.ok
        THEN Result([c EXCEPT !.unlocked = g.lru], MapGet(c.locked, key).ok,
                    Nil, Nil, Nil, <<>>)
        ELSE Result([c EXCEPT !.locked = locked1, !.unlocked = rs.lru],
                    TRUE, Nil, Nil, Nil, rs.cb)

\* Lock without the resize of the lru after the Set
LockNoResize(c, key) ==
    LET g == LruGet(c.unlocked, key)
        rm == LruRemove(g.lru, key)
        locked1 == MapSet(c.locked, key, g.value)
    IN  IF ~g.ok
        THEN Result([c EXCEPT !.unlocked = g.lru], MapGet(c.locked, key).ok,
                    Nil, Nil, Nil, <<>>)
        ELSE Result([c EXCEPT !.locked = locked1, !.unlocked = rm.lru],
                    TRUE, Nil, Nil, Nil, rm.cb)

\* Lock shrinking the lru for the new locked entry before the Remove of the
\* key from it
LockResizeBeforeRemove(c, key) ==
    LET g == LruGet(c.unlocked, key)
        rs == resize(g.lru, c.size - MapLen(c.locked) - 1)
        rm == LruRemove(rs.lru, key)
        locked1 == MapSet(c.locked, key, g.value)
    IN  IF ~g.ok
        THEN Result([c EXCEPT !.unlocked = g.lru], MapGet(c.locked, key).ok,
                    Nil, Nil, Nil, <<>>)
        ELSE Result([c EXCEPT !.locked = locked1, !.unlocked = rm.lru],
                    TRUE, Nil, Nil, Nil, rs.cb \o rm.cb)

Lock(c, key) ==
    LET g == LruGet(c.unlocked, key)
        rm == LruRemove(g.lru, key)
        locked1 == MapSet(c.locked, key, g.value)
        rs == resize(rm.lru, c.size - MapLen(locked1))
    IN  IF ~g.ok
        THEN Result([c EXCEPT !.unlocked = g.lru], MapGet(c.locked, key).ok,
                    Nil, Nil, Nil, <<>>)
        ELSE Result([c EXCEPT !.locked = locked1, !.unlocked = rs.lru],
                    TRUE, Nil, Nil, Nil, rm.cb \o rs.cb)

\* Unlock going on to the delete, resize and Add without looking whether the
\* key was found in the locked map
UnlockNoExistsCheck(c, key) ==
    LET g == MapGet(c.locked, key)
        locked1 == MapDelete(c.locked, key)
        rs == resize(c.unlocked, c.size - MapLen(locked1))
        ad == LruAdd(rs.lru, key, g.value)
    IN  Result([c EXCEPT !.locked = locked1, !.unlocked = ad.lru],
               TRUE, Nil, Nil, Nil, rs.cb \o ad.cb)

\* Unlock adding the value of the lookup in the lru, which missed, instead of
\* the value found in the locked map
UnlockAddsLruValue(c, key) ==
    LET g == MapGet(c.locked, key)
        ug == LruGet(c.unlocked, key)
        locked1 == MapDelete(c.locked, key)
        rs == resize(c.unlocked, c.size - MapLen(locked1))
        ad == LruAdd(rs.lru, key, ug.value)
    IN  IF ~g.ok
        THEN Result([c EXCEPT !.unlocked = ug.lru], ug.ok, Nil, Nil, Nil, <<>>)
        ELSE Result([c EXCEPT !.locked = locked1, !.unlocked = ad.lru],
                    TRUE, Nil, Nil, Nil, rs.cb \o ad.cb)

\* Unlock without the resize that grows the lru before the Add
UnlockNoResize(c, key) ==
    LET g == MapGet(c.locked, key)
        ug == LruGet(c.unlocked, key)
        locked1 == MapDelete(c.locked, key)
        ad == LruAdd(c.unlocked, key, g.value)
    IN  IF ~g.ok
        THEN Result([c EXCEPT !.unlocked = ug.lru], ug.ok, Nil, Nil, Nil, <<>>)
        ELSE Result([c EXCEPT !.locked = locked1, !.unlocked = ad.lru],
                    TRUE, Nil, Nil, Nil, ad.cb)

\* Unlock adding the key to the lru before the resize that grows it
UnlockAddBeforeResize(c, key) ==
    LET g == MapGet(c.locked, key)
        ug == LruGet(c.unlocked, key)
        locked1 == MapDelete(c.locked, key)
        ad == LruAdd(c.unlocked, key, g.value)
        rs == resize(ad.lru, c.size - MapLen(locked1))
    IN  IF ~g.ok
        THEN Result([c EXCEPT !.unlocked = ug.lru], ug.ok, Nil, Nil, Nil, <<>>)
        ELSE Result([c EXCEPT !.locked = locked1, !.unlocked = rs.lru],
                    TRUE, Nil, Nil, Nil, ad.cb \o rs.cb)

Unlock(c, key) ==
    LET g == MapGet(c.locked, key)
        ug == LruGet(c.unlocked, key)
        locked1 == MapDelete(c.locked, key)
        rs == resize(c.unlocked, c.size - MapLen(locked1))
        ad == LruAdd(rs.lru, key, g.value)
    IN  IF ~g.ok
        THEN Result([c EXCEPT !.unlocked = ug.lru], ug.ok, Nil, Nil, Nil, <<>>)
        ELSE Result([c EXCEPT !.locked = locked1, !.unlocked = ad.lru],
                    TRUE, Nil, Nil, Nil, rs.cb \o ad.cb)

\* Get making a locked key the newest pair of the locked map
GetMovesLockedKey(c, key) ==
    LET g == MapGet(c.locked, key)
        ug == LruGet(c.unlocked, key)
    IN  IF g.ok
        THEN Result([c EXCEPT !.locked = MapSet(MapDelete(@, key), key, g.value)],
                    TRUE, Nil, Ptr(g.value), Nil, <<>>)
        ELSE IF ug.ok
             THEN Result([c EXCEPT !.unlocked = ug.lru], TRUE, Nil, Ptr(ug.value), Nil, <<>>)
             ELSE Result([c EXCEPT !.unlocked = ug.lru], FALSE, Nil, Nil, Nil, <<>>)

\* Get reading the lru without updating the recent-ness of the key
GetNoPromote(c, key) ==
    LET g == MapGet(c.locked, key)
        found == Has(c.unlocked.items, key)
    IN  IF g.ok
        THEN Result(c, TRUE, Nil, Ptr(g.value), Nil, <<>>)
        ELSE IF found
             THEN Result(c, TRUE, Nil, Ptr(ValueOf(c.unlocked.items, key)), Nil, <<>>)
             ELSE Result(c, FALSE, Nil, Nil, Nil, <<>>)

Get(c, key) ==
    LET g == MapGet(c.locked, key)
        ug == LruGet(c.unlocked, key)
    IN  IF g.ok
        THEN Result(c, TRUE, Nil, Ptr(g.value), Nil, <<>>)
        ELSE IF ug.ok
             THEN Result([c EXCEPT !.unlocked = ug.lru], TRUE, Nil, Ptr(ug.value), Nil, <<>>)
             ELSE Result([c EXCEPT !.unlocked = ug.lru], FALSE, Nil, Nil, Nil, <<>>)

\* Contains looking the key up with the lru's Get, which updates the
\* recent-ness, instead of its Contains
ContainsPromotes(c, key) ==
    LET ug == LruGet(c.unlocked, key)
    IN  IF ug.ok
        THEN Result([c EXCEPT !.unlocked = ug.lru], TRUE, Nil, Nil, Nil, <<>>)
        ELSE Result(c, MapGet(c.locked, key).ok, Nil, Nil, Nil, <<>>)

Contains(c, key) ==
    LET inUnlocked == LruContains(c.unlocked, key)
    IN  IF inUnlocked
        THEN Result(c, inUnlocked, Nil, Nil, Nil, <<>>)
        ELSE Result(c, MapGet(c.locked, key).ok, Nil, Nil, Nil, <<>>)

LLRULen(c) == MapLen(c.locked) + LruLen(c.unlocked)

\* Values with the locked values ahead of the unlocked values
ValuesLockedFirst(c) == collectValues(c.locked) \o LruValues(c.unlocked)

Values(c) == LruValues(c.unlocked) \o collectValues(c.locked)

\* RemoveOldest taking the oldest locked entry when the lru is empty
RemoveOldestFromLocked(c) ==
    LET ro == LruRemoveOldest(c.unlocked)
    IN  IF ro.ok
        THEN Result([c EXCEPT !.unlocked = ro.lru], TRUE, Ptr(ro.entry), Nil, Nil, ro.cb)
        ELSE IF c.locked # <<>>
             THEN Result([c EXCEPT !.locked = Tail(@)], TRUE, Ptr(Head(c.locked)),
                         Nil, Nil, ro.cb)
             ELSE Result([c EXCEPT !.unlocked = ro.lru], FALSE, Nil, Nil, Nil, ro.cb)

RemoveOldest(c) ==
    LET ro == LruRemoveOldest(c.unlocked)
    IN  IF ro.ok
        THEN Result([c EXCEPT !.unlocked = ro.lru], TRUE, Ptr(ro.entry), Nil, Nil, ro.cb)
        ELSE Result([c EXCEPT !.unlocked = ro.lru], FALSE, Nil, Nil, Nil, ro.cb)

\* ReplaceOldestKey without the check that newKey does not exist
ReplaceOldestKeyNoContains(c, newKey) ==
    LET ro == LruRemoveOldest(c.unlocked)
        ad == AddOrUpdateUnlocked([c EXCEPT !.unlocked = ro.lru], newKey, ro.entry.value)
    IN  IF ro.ok
        THEN Result(ad.c, ad.ok, Nil, Ptr(ro.entry.value), Ptr(ro.entry.key),
                    ro.cb \o ad.cb)
        ELSE Result([c EXCEPT !.unlocked = ro.lru], FALSE, Nil, Nil, Nil, ro.cb)

\* ReplaceOldestKey removing the oldest entry before it looks whether newKey
\* exists
ReplaceOldestKeyRemovesFirst(c, newKey) ==
    LET contains == Contains(c, newKey).ok
        ro == LruRemoveOldest(c.unlocked)
        ad == AddOrUpdateUnlocked([c EXCEPT !.unlocked = ro.lru], newKey, ro.entry.value)
    IN  IF ~contains /\ ro.ok
        THEN Result(ad.c, ad.ok, Nil, Ptr(ro.entry.value), Ptr(ro.entry.key),
                    ro.cb \o ad.cb)
        ELSE Result([c EXCEPT !.unlocked = ro.lru], FALSE, Nil, Nil, Nil, ro.cb)

\* ReplaceOldestKey writing newKey into the oldest entry where it stands
ReplaceOldestKeyInPlace(c, newKey) ==
    LET contains == Contains(c, newKey).ok
        ro == LruRemoveOldest(c.unlocked)
    IN  IF ~contains
        THEN IF ro.ok
             THEN Result([c EXCEPT !.unlocked.items =
                                     <<Entry(newKey, ro.entry.value)>> \o Tail(@)],
                         TRUE, Nil, Ptr(ro.entry.value), Ptr(ro.entry.key), ro.cb)
             ELSE Result([c EXCEPT !.unlocked = ro.lru], FALSE, Nil, Nil, Nil, ro.cb)
        ELSE Result(c, FALSE, Nil, Nil, Nil, <<>>)

ReplaceOldestKey(c, newKey) ==
    LET contains == Contains(c, newKey).ok
        ro == LruRemoveOldest(c.unlocked)
        ad == AddOrUpdateUnlocked([c EXCEPT !.unlocked = ro.lru], newKey, ro.entry.value)
    IN  IF ~contains
        THEN IF ro.ok
             THEN Result(ad.c, ad.ok, Nil, Ptr(ro.entry.value), Ptr(ro.entry.key),
                         ro.cb \o ad.cb)
             ELSE Result([c EXCEPT !.unlocked = ro.lru], FALSE, Nil, Nil, Nil, ro.cb)
        ELSE Result(c, FALSE, Nil, Nil, Nil, <<>>)

\* ReplaceOldestValue writing newValue into the oldest entry where it stands
ReplaceOldestValueInPlace(c, newValue) ==
    LET ro == LruRemoveOldest(c.unlocked)
    IN  IF ro.ok
        THEN Result([c EXCEPT !.unlocked.items =
                                <<Entry(ro.entry.key, newValue)>> \o Tail(@)],
                    TRUE, Nil, Ptr(ro.entry.value), Ptr(ro.entry.key), ro.cb)
        ELSE Result([c EXCEPT !.unlocked = ro.lru], FALSE, Nil, Nil, Nil, ro.cb)

ReplaceOldestValue(c, newValue) ==
    LET ro == LruRemoveOldest(c.unlocked)
        ad == AddOrUpdateUnlocked([c EXCEPT !.unlocked = ro.lru], ro.entry.key, newValue)
    IN  IF ro.ok
        THEN Result(ad.c, ad.ok, Nil, Ptr(ro.entry.value), Ptr(ro.entry.key),
                    ro.cb \o ad.cb)
        ELSE Result([c EXCEPT !.unlocked = ro.lru], FALSE, Nil, Nil, Nil, ro.cb)

\* ------------------------------------------------ history of the calls
UnlockedKeys(c) == KeysOf(c.unlocked.items)

LockedKeys(c) == KeysOf(c.locked)

AllKeys(c) == LockedKeys(c) \cup UnlockedKeys(c)

AddOps == {"AddOrUpdateUnlocked", "AddOrUpdateLocked"}

\* The value each key was last written with, by the arguments of the calls:
\* a successful AddOrUpdate* writes its value under its key, ReplaceOldestKey
\* writes the oldest entry's value under newKey, ReplaceOldestValue writes
\* newValue under the oldest key. A key that is in neither pool after the
\* call is forgotten.
StoredAfter(op, key, value, r) ==
    LET oldestKey == LruGetOldest(unlocked).key
        written ==
            IF ~r.ok THEN stored
            ELSE IF op \in AddOps THEN [stored EXCEPT ![key] = value]
            ELSE IF op = "ReplaceOldestKey" THEN [stored EXCEPT ![key] = stored[oldestKey]]
            ELSE IF op = "ReplaceOldestValue" THEN [stored EXCEPT ![oldestKey] = value]
            ELSE stored
        gone == AllKeys(Cache) \ AllKeys(r.c)
    IN  IF gone = {} THEN written
        ELSE [k \in KeySet |-> IF k \in gone THEN ZeroValue ELSE written[k]]

\* No key is followed
NoMark(on) ==
    [on |-> on, key |-> ZeroKey, from |-> "none", had |-> FALSE,
     others |-> {}, untouched |-> {}]

\* The calls that touch an unlocked entry by its key
TouchOps == {"Get", "Unlock", "AddOrUpdateUnlocked"}

\* The key whose entry ReplaceOldestValue replaced
Replaced(op, r) == IF op = "ReplaceOldestValue" /\ r.key # Nil THEN {r.key[1]} ELSE {}

\* A key is followed and is still in the unlocked pool
Following == mark.on /\ mark.key \in UnlockedKeys(Cache)

\* The mark carried over a call: of the entries that were in the unlocked
\* pool when the key was marked, others keeps those that stayed in the
\* unlocked pool and were not replaced, untouched those of them that no call
\* has touched by key either
KeptMark(op, key, r) ==
    [mark EXCEPT
        !.others = (@ \cap UnlockedKeys(r.c)) \ Replaced(op, r),
        !.untouched = (@ \cap UnlockedKeys(r.c)) \
                        (Replaced(op, r) \cup (IF op \in TouchOps THEN {key} ELSE {}))]

\* The call is Unlock of a key of the cache, or Get or a successful
\* AddOrUpdateUnlocked of a key of the unlocked pool
Marking(op, key, r) ==
    /\ r.ok
    /\ \/ op = "Unlock" /\ key \in AllKeys(Cache)
       \/ op \in {"Get", "AddOrUpdateUnlocked"} /\ key \in UnlockedKeys(Cache)

\* The mark of a marking call: its key, the pool the key was in, the other
\* unlocked entries of that moment and whether there were any
NewMark(op, key, r) ==
    LET present == (UnlockedKeys(Cache) \ {key}) \cap UnlockedKeys(r.c)
    IN  [on |-> TRUE, key |-> key,
         from |-> IF key \in LockedKeys(Cache) THEN "locked" ELSE "unlocked",
         had |-> present # {}, others |-> present, untouched |-> present]

\* The marks a call may leave. A followed key is followed until it has left
\* the unlocked pool; when no key is followed, a marking call may start to
\* follow its key, so every marking call of every run is followed in some run
MarkAfter(op, key, r) ==
    IF ~mark.on THEN {mark}
    ELSE IF Following THEN {KeptMark(op, key, r)}
    ELSE IF Marking(op, key, r) THEN {NoMark(TRUE), NewMark(op, key, r)}
    ELSE {NoMark(TRUE)}

\* ------------------------------------------------ LLRU (the wrapper)
\* The goroutines that call the wrapper
Goroutines == 1..NumGoroutines

\* The mutex is free
NoHolder == 0

\* The methods LLRU has
WrapperOps == {"AddOrUpdateUnlocked", "AddOrUpdateLocked", "Lock", "Unlock", "Get"}

\* The public methods ThreadunsafeLLRU has
PublicOps ==
    {"AddOrUpdateUnlocked", "AddOrUpdateLocked", "Lock", "Unlock", "Get", "Contains",
     "Len", "Values", "RemoveOldest", "ReplaceOldestKey", "ReplaceOldestValue"}

\* The concurrent callers write one value, under as many keys as the largest
\* size: enough to fill every cache and to evict from the smaller ones. What
\* varies is the interleaving.
WrapperValSet == RecencyValSet

WrapperKeySet == 1..MaxSize

\* The engine method a wrapper method passes its arguments to
EngineCall(op, c, key, value) ==
    CASE op = "AddOrUpdateUnlocked" -> AddOrUpdateUnlocked(c, key, value)
      [] op = "AddOrUpdateLocked" -> AddOrUpdateLocked(c, key, value)
      [] op = "Lock" -> Lock(c, key)
      [] op = "Unlock" -> Unlock(c, key)
      [] op = "Get" -> Get(c, key)

\* The struct part of the way through an engine method, after the statement
\* that takes the key out of a pool: locked.Delete in AddOrUpdateUnlocked,
\* AddOrUpdateLocked and Unlock, unlocked.Remove in Lock. Get makes one call
\* on a container and has no such place.
Midway(op, c, key) ==
    CASE op \in {"AddOrUpdateUnlocked", "AddOrUpdateLocked"} ->
            [c EXCEPT !.locked = MapDelete(@, key)]
      [] op = "Lock" ->
            [c EXCEPT !.unlocked = LruRemove(LruGet(@, key).lru, key).lru]
      [] op = "Unlock" ->
            IF MapGet(c.locked, key).ok
            THEN [c EXCEPT !.locked = MapDelete(@, key)]
            ELSE [c EXCEPT !.unlocked = LruGet(@, key).lru]
      [] op = "Get" -> c

\* What a wrapper method returns to its caller
Returned(r) == [ok |-> r.ok, evicted |-> r.evicted, value |-> r.value]

NoReturn == Returned(Result(NewUnsafe(0), FALSE, Nil, Nil, Nil, <<>>))

\* A goroutine's place: "idle" outside the wrapper, "waiting" in lock.Lock(),
\* "holding" with the mutex before the engine method, "inside" the engine
\* method (snap is the struct it started from), "returning" after it with
\* the deferred lock.Unlock() still to run
Caller(pc, op, key, value, snap, ret) ==
    [pc |-> pc, op |-> op, key |-> key, value |-> value, snap |-> snap, ret |-> ret]

IdleCaller == Caller("idle", "none", ZeroKey, ZeroValue, NewUnsafe(0), NoReturn)

\* No goroutine is in the wrapper
NoCalls ==
    /\ lock = NoHolder
    /\ callers = [g \in Goroutines |-> IdleCaller]
    /\ seq = [c |-> Cache, ret |-> NoReturn]

\* ------------------------------------------------ the state machine
\* The record of a call: the method, its arguments, what it returned
Called(op, key, value, r) ==
    [op |-> op, key |-> key, value |-> value, ok |-> r.ok, evicted |-> r.evicted,
     rvalue |-> r.value, rkey |-> r.key, cb |-> r.cb]

\* A call's effect on the state
Apply(op, key, value, r) ==
    /\ unlocked' = r.c.unlocked
    /\ locked' = r.c.locked
    /\ size' = r.c.size
    /\ last' = Called(op, key, value, r)
    /\ before' = Cache
    /\ stored' = StoredAfter(op, key, value, r)
    /\ mark' \in MarkAfter(op, key, r)
    /\ UNCHANGED <<lock, callers, seq>>

Init ==
    /\ \E n \in 1..MaxSize :
          /\ unlocked = NewUnsafe(n).unlocked
          /\ locked = NewUnsafe(n).locked
          /\ size = NewUnsafe(n).size
    /\ last = Called("NewUnsafe", ZeroKey, ZeroValue,
                     Result(Cache, TRUE, Nil, Nil, Nil, <<>>))
    /\ before = Cache
    /\ stored = [k \in KeySet |-> ZeroValue]
    /\ mark = NoMark(FALSE)
    /\ NoCalls

\* The same start, with the history of touched keys switched on
InitRecency ==
    /\ \E n \in 1..MaxSize :
          /\ unlocked = NewUnsafe(n).unlocked
          /\ locked = NewUnsafe(n).locked
          /\ size = NewUnsafe(n).size
    /\ last = Called("NewUnsafe", ZeroKey, ZeroValue,
                     Result(Cache, TRUE, Nil, Nil, Nil, <<>>))
    /\ before = Cache
    /\ stored = [k \in KeySet |-> ZeroValue]
    /\ mark = NoMark(TRUE)
    /\ NoCalls

\* The sizes callers ask for, positive or not
SizeSet == (0 - MaxSize)..MaxSize

\* Construction with any size of SizeSet; the record of the call keeps the
\* size asked for in the place of the value argument
InitNew ==
    /\ \E n \in SizeSet :
          LET r == NewUnsafeWithEvict(n)
              c == IF r.cache = Nil THEN NoCache ELSE r.cache[1]
          IN  /\ unlocked = c.unlocked
              /\ locked = c.locked
              /\ size = c.size
              /\ last = Called("NewUnsafe", ZeroKey, n,
                               Result(c, r.err = Nil, Nil, Nil, Nil, <<>>))
    /\ before = Cache
    /\ stored = [k \in KeySet |-> ZeroValue]
    /\ mark = NoMark(FALSE)
    /\ NoCalls

CallAddOrUpdateUnlocked(key, value) ==
    Apply("AddOrUpdateUnlocked", key, value, AddOrUpdateUnlocked(Cache, key, value))

CallAddOrUpdateLocked(key, value) ==
    Apply("AddOrUpdateLocked", key, value, AddOrUpdateLocked(Cache, key, value))

CallLock(key) == Apply("Lock", key, ZeroValue, Lock(Cache, key))

CallUnlock(key) == Apply("Unlock", key, ZeroValue, Unlock(Cache, key))

CallGet(key) == Apply("Get", key, ZeroValue, Get(Cache, key))

CallContains(key) == Apply("Contains", key, ZeroValue, Contains(Cache, key))

CallRemoveOldest == Apply("RemoveOldest", ZeroKey, ZeroValue, RemoveOldest(Cache))

CallReplaceOldestKey(newKey) ==
    Apply("ReplaceOldestKey", newKey, ZeroValue, ReplaceOldestKey(Cache, newKey))

CallReplaceOldestValue(newValue) ==
    Apply("ReplaceOldestValue", ZeroKey, newValue, ReplaceOldestValue(Cache, newValue))

\* the values the callers pass
ArgVals == IF mark.on THEN RecencyValSet ELSE ValSet

Next ==
    \/ \E key \in KeySet, value \in ArgVals : CallAddOrUpdateUnlocked(key, value)
    \/ \E key \in KeySet, value \in ArgVals : CallAddOrUpdateLocked(key, value)
    \/ \E key \in KeySet : CallLock(key)
    \/ \E key \in KeySet : CallUnlock(key)
    \/ \E key \in KeySet : CallGet(key)
    \/ \E key \in KeySet : CallContains(key)
    \/ CallRemoveOldest
    \/ \E newKey \in KeySet : CallReplaceOldestKey(newKey)
    \/ \E newValue \in ArgVals : CallReplaceOldestValue(newValue)

Spec == Init /\ [][Next]_vars

\* The same calls, with the history of touched keys
SpecRecency == InitRecency /\ [][Next]_vars

\* Construction returned a cache: there is a receiver for the methods
Constructed == ~(last.op = "NewUnsafe" /\ ~last.ok)

\* The calls on a cache that construction returned
NextNew == Constructed /\ Next

\* Construction with any size, then the same calls
SpecNew == InitNew /\ [][NextNew]_vars

\* ------------------------------------------------ Lock, then Unlock
\* Lock(key) and, on the struct it leaves, Unlock(key): ok is that both
\* returned true
LockThenUnlock(c, key) ==
    LET l == Lock(c, key)
        u == Unlock(l.c, key)
    IN  Result(u.c, l.ok /\ u.ok, Nil, Nil, Nil, l.cb \o u.cb)

\* A caller makes the two calls one after the other
CallLockThenUnlock(key) ==
    Apply("LockThenUnlock", key, ZeroValue, LockThenUnlock(Cache, key))

NextRoundTrip ==
    \/ Next
    \/ \E key \in KeySet : CallLockThenUnlock(key)

\* The calls of Spec, and Lock followed at once by Unlock of the same key
SpecRoundTrip == Init /\ [][NextRoundTrip]_vars

\* ------------------------------------------------ calls through the wrapper
\* A goroutine calls a method of LLRU; the method starts with lock.Lock()
WrapperCall(g) ==
    /\ callers[g].pc = "idle"
    /\ callers' = [callers EXCEPT ![g].pc = "waiting"]
    /\ UNCHANGED <<unlocked, locked, size, last, before, stored, mark, lock, seq>>

\* lock.Lock() returning at once, whether or not the mutex is held
AcquireWithoutWaiting(g) ==
    /\ callers[g].pc = "waiting"
    /\ lock' = g
    /\ callers' = [callers EXCEPT ![g].pc = "holding"]
    /\ UNCHANGED <<unlocked, locked, size, last, before, stored, mark, seq>>

\* lock.Lock() returns: the mutex was free and is now held by the goroutine
Acquire(g) ==
    /\ callers[g].pc = "waiting"
    /\ lock = NoHolder
    /\ lock' = g
    /\ callers' = [callers EXCEPT ![g].pc = "holding"]
    /\ UNCHANGED <<unlocked, locked, size, last, before, stored, mark, seq>>

\* The wrapper method calls the engine method with its arguments, and the
\* engine method runs up to the place where the key is out of its pool
Enter(g, op, key, value) ==
    /\ callers[g].pc = "holding"
    /\ callers' = [callers EXCEPT ![g] = Caller("inside", op, key, value, Cache, NoReturn)]
    /\ unlocked' = Midway(op, Cache, key).unlocked
    /\ locked' = Midway(op, Cache, key).locked
    /\ size' = Midway(op, Cache, key).size
    /\ UNCHANGED <<last, before, stored, mark, lock, seq>>

\* The engine method runs to its end and returns to the wrapper method. The
\* history makes the same call on the struct the calls before it have left
\* when made one at a time.
Finish(g) ==
    /\ callers[g].pc = "inside"
    /\ LET r == EngineCall(callers[g].op, callers[g].snap, callers[g].key, callers[g].value)
           s == EngineCall(callers[g].op, seq.c, callers[g].key, callers[g].value)
       IN  /\ unlocked' = r.c.unlocked
           /\ locked' = r.c.locked
           /\ size' = r.c.size
           /\ callers' = [callers EXCEPT ![g] = [IdleCaller EXCEPT !.pc = "returning",
                                                                   !.ret = Returned(r)]]
           /\ seq' = [c |-> s.c, ret |-> Returned(s)]
    /\ UNCHANGED <<last, before, stored, mark, lock>>

\* The wrapper method returning without the deferred lock.Unlock()
ReleaseKeepsLock(g) ==
    /\ callers[g].pc = "returning"
    /\ callers' = [callers EXCEPT ![g] = IdleCaller]
    /\ UNCHANGED <<unlocked, locked, size, last, before, stored, mark, lock, seq>>

\* The wrapper method returns: the deferred lock.Unlock() frees the mutex
Release(g) ==
    /\ callers[g].pc = "returning"
    /\ lock' = NoHolder
    /\ callers' = [callers EXCEPT ![g] = IdleCaller]
    /\ UNCHANGED <<unlocked, locked, size, last, before, stored, mark, seq>>

NextWrapper ==
    \/ \E g \in Goroutines : WrapperCall(g)
    \/ \E g \in Goroutines : Acquire(g)
    \/ \E g \in Goroutines, op \in WrapperOps, key \in WrapperKeySet,
             value \in WrapperValSet :
          Enter(g, op, key, value)
    \/ \E g \in Goroutines : Finish(g)
    \/ \E g \in Goroutines : Release(g)

\* A goroutine that has called a wrapper method goes on running, and one
\* that waits in lock.Lock() gets the mutex if it is free again and again.
\* The engine method a goroutine is inside returns: this is weak fairness of
\* Finish(g), which is enabled exactly while the goroutine is inside, written
\* with the state predicate.
WrapperFairness ==
    \A g \in Goroutines :
        /\ SF_vars(Acquire(g))
        /\ WF_vars(\E op \in WrapperOps, key \in WrapperKeySet, value \in WrapperValSet :
                      Enter(g, op, key, value))
        /\ []<>(callers[g].pc # "inside")
        /\ WF_vars(Release(g))

\* Construction, then calls of the wrapper's methods from the goroutines
SpecWrapper == Init /\ [][NextWrapper]_vars /\ WrapperFairness

\* ------------------------------------------------ the eviction callback
\* The entries the lru hands to onEvicted in the engine method a goroutine
\* is inside: lru.Add, lru.Resize and lru.Remove call onEvicted themselves,
\* before they return to the engine method
Evicting(g) ==
    EngineCall(callers[g].op, callers[g].snap, callers[g].key, callers[g].value).cb

\* The engine method returns without the lru having called onEvicted
FinishQuietly(g) ==
    /\ callers[g].pc = "inside"
    /\ Evicting(g) = <<>>
    /\ Finish(g)

\* The lru calls onEvicted, on the goroutine that is inside the engine
\* method: the wrapper method's deferred lock.Unlock() has not run
OnEvicted(g) ==
    /\ callers[g].pc = "inside"
    /\ Evicting(g) # <<>>
    /\ callers' = [callers EXCEPT ![g].pc = "callback"]
    /\ UNCHANGED <<unlocked, locked, size, last, before, stored, mark, lock, seq>>

\* onEvicted calls a method of LLRU, which starts with lock.Lock(); the
\* goroutine's record keeps the call it is still inside
CallbackCall(g) ==
    /\ callers[g].pc = "callback"
    /\ callers' = [callers EXCEPT ![g].pc = "waiting"]
    /\ UNCHANGED <<unlocked, locked, size, last, before, stored, mark, lock, seq>>

NextCallback ==
    \/ \E g \in Goroutines : WrapperCall(g)
    \/ \E g \in Goroutines : Acquire(g)
    \/ \E g \in Goroutines, op \in WrapperOps, key \in WrapperKeySet,
             value \in WrapperValSet :
          Enter(g, op, key, value)
    \/ \E g \in Goroutines : FinishQuietly(g)
    \/ \E g \in Goroutines : OnEvicted(g)
    \/ \E g \in Goroutines : CallbackCall(g)
    \/ \E g \in Goroutines : Release(g)

\* NewWithEvict with an onEvicted that calls a method of the cache, then
\* calls of the wrapper's methods from the goroutines
SpecCallback == Init /\ [][NextCallback]_vars

\* ------------------------------------------------ properties
\* the most recently used entry of a non-empty unlocked pool
Newest(c) == c.unlocked.items[Len(c.unlocked.items)]

\* the least recently used entry of a non-empty unlocked pool
Oldest(c) == Head(c.unlocked.items)

\* C1: in every reachable state the number of locked entries plus the bound
\* of the unlocked lru equals the size given at construction.
C1_LockedPlusUnlockedBound == MapLen(locked) + unlocked.size = size

\* a Lock has moved an unlocked key to the locked pool beside another
\* unlocked entry, so the lru's bound had to shrink
C1_Witness ==
    /\ last.op = "Lock"
    /\ Has(before.unlocked.items, last.key)
    /\ unlocked.items # <<>>
    /\ unlocked.size < before.unlocked.size

\* C2: in every reachable state Len() = locked count + unlocked count is at
\* most the size given at construction.
C2_LenAtMostSize == LLRULen(Cache) <= size

\* a full cache with both pools in use, just after an add that had to evict
C2_Witness ==
    /\ last.op = "AddOrUpdateLocked"
    /\ last.evicted # Nil
    /\ LLRULen(before) = before.size
    /\ LLRULen(Cache) = size
    /\ unlocked.items # <<>>

\* C3: in every reachable state no key is in both the locked pool and the
\* unlocked pool.
C3_PoolsDisjoint == LockedKeys(Cache) \cap UnlockedKeys(Cache) = {}

\* an unlocked key has just been added as locked
C3_Witness ==
    /\ last.op = "AddOrUpdateLocked"
    /\ last.key \in UnlockedKeys(before)
    /\ last.key \in LockedKeys(Cache)
    /\ unlocked.items # <<>>

\* C4: a key of the locked pool stays locked with its value across every
\* call that does not name it, leaves the locked pool only by Unlock(k) or
\* AddOrUpdateUnlocked(k, _), and is never the entry or key a call returns
\* as evicted, removed or replaced.
C4_LockedNeverEvicted ==
    \A k \in LockedKeys(before) :
        /\ last.key # k =>
              /\ k \in LockedKeys(Cache)
              /\ ValueOf(locked, k) = ValueOf(before.locked, k)
        /\ k \notin LockedKeys(Cache) =>
              /\ last.op \in {"Unlock", "AddOrUpdateUnlocked"}
              /\ last.key = k
              /\ k \in UnlockedKeys(Cache)
        /\ last.evicted # Nil => last.evicted[1].key # k
        /\ last.rkey # Nil => last.rkey[1] # k

\* a full cache holding a locked key evicts on the add of another key
C4_Witness ==
    /\ last.op = "AddOrUpdateUnlocked"
    /\ last.evicted # Nil
    /\ before.locked # <<>>
    /\ locked = before.locked

\* C5: a non-nil evicted entry returned by AddOrUpdateUnlocked or
\* AddOrUpdateLocked is the least recently used entry the unlocked pool had
\* before the call, and its key is in neither pool after the call.
C5_EvictedIsOldest ==
    (last.op \in AddOps /\ last.evicted # Nil) =>
        /\ before.unlocked.items # <<>>
        /\ last.evicted[1] = Oldest(before)
        /\ last.evicted[1].key \notin AllKeys(Cache)

\* an add evicted from an unlocked pool of two entries
C5_Witness ==
    /\ last.op = "AddOrUpdateUnlocked"
    /\ last.evicted # Nil
    /\ Len(before.unlocked.items) = 2

\* C6: AddOrUpdateUnlocked and AddOrUpdateLocked return (false, nil) exactly
\* when the key is in neither pool and the locked pool holds size entries,
\* and ok = true otherwise; in a cache of size 1 whose only key was just
\* locked by Lock, AddOrUpdateLocked of any other key returns (false, nil).
C6_NoRoomIffFullyLocked ==
    /\ last.op \in AddOps =>
          /\ ~last.ok <=>
                (last.key \notin AllKeys(before) /\ MapLen(before.locked) = before.size)
          /\ ~last.ok => last.evicted = Nil
    /\ (last.op = "Lock" /\ last.ok /\ size = 1 /\ last.key \in UnlockedKeys(before)) =>
          \A k2 \in KeySet \ {last.key}, v \in ValSet :
              /\ ~AddOrUpdateLocked(Cache, k2, v).ok
              /\ AddOrUpdateLocked(Cache, k2, v).evicted = Nil

\* size 1: an add with a new key was refused right after the only key was
\* locked
C6_Witness ==
    /\ last.op = "AddOrUpdateLocked"
    /\ ~last.ok
    /\ size = 1
    /\ last.key \notin AllKeys(before)
    /\ MapLen(before.locked) = 1

\* C7: when AddOrUpdateUnlocked or AddOrUpdateLocked returns ok = false the
\* struct is as it was before the call: both pools with their values and
\* orders, and the lru's bound.
C7_NoRoomNoChange ==
    (last.op \in AddOps /\ ~last.ok) => Cache = before

\* an AddOrUpdateUnlocked was refused by a fully locked cache of two entries
C7_Witness ==
    /\ last.op = "AddOrUpdateUnlocked"
    /\ ~last.ok
    /\ MapLen(before.locked) = 2

\* C8: AddOrUpdateUnlocked of a key in neither pool, with fewer than size
\* locked entries, returns ok = true, leaves the key as the most recently
\* used unlocked entry with the given value, and returns an evicted entry
\* exactly when the unlocked pool was full (unlocked count = size - locked
\* count) before the call.
C8_AddUnlockedNewKey ==
    (/\ last.op = "AddOrUpdateUnlocked"
     /\ last.key \notin AllKeys(before)
     /\ MapLen(before.locked) < before.size) =>
        /\ last.ok
        /\ unlocked.items # <<>>
        /\ Newest(Cache) = Entry(last.key, last.value)
        /\ last.evicted # Nil <=>
              LruLen(before.unlocked) = before.size - MapLen(before.locked)

\* a new key was added as unlocked beside a locked entry, and evicted
C8_Witness ==
    /\ last.op = "AddOrUpdateUnlocked"
    /\ last.key \notin AllKeys(before)
    /\ before.locked # <<>>
    /\ last.evicted # Nil

\* C9: AddOrUpdateUnlocked of a key of the unlocked pool returns (true, nil),
\* gives the key the new value and removes no entry, in a full cache too.
C9_UpdateUnlockedKey ==
    (last.op = "AddOrUpdateUnlocked" /\ last.key \in UnlockedKeys(before)) =>
        /\ last.ok
        /\ last.evicted = Nil
        /\ last.key \in UnlockedKeys(Cache)
        /\ ValueOf(unlocked.items, last.key) = last.value
        /\ AllKeys(Cache) = AllKeys(before)
        /\ LLRULen(Cache) = LLRULen(before)

\* the oldest unlocked key of a full cache was given another value
C9_Witness ==
    /\ last.op = "AddOrUpdateUnlocked"
    /\ LLRULen(before) = before.size
    /\ Len(before.unlocked.items) = 2
    /\ last.key = Oldest(before).key
    /\ last.value # Oldest(before).value

\* C10: AddOrUpdateUnlocked of a locked key returns (true, nil) in every
\* state: the key leaves the locked pool and is the most recently used
\* unlocked entry with the new value, no entry is evicted, and the key is
\* evictable from then on: when it is the oldest unlocked entry of a full
\* cache, the add of a new key evicts it.
C10_AddUnlockedLockedKey ==
    (last.op = "AddOrUpdateUnlocked" /\ last.key \in LockedKeys(before)) =>
        /\ last.ok
        /\ last.evicted = Nil
        /\ last.key \notin LockedKeys(Cache)
        /\ unlocked.items # <<>>
        /\ Newest(Cache) = Entry(last.key, last.value)
        /\ AllKeys(Cache) = AllKeys(before)
        /\ LLRULen(Cache) = LLRULen(before)
        /\ (Oldest(Cache).key = last.key /\ LLRULen(Cache) = size) =>
              \A k2 \in KeySet \ AllKeys(Cache), v \in ValSet :
                  AddOrUpdateUnlocked(Cache, k2, v).evicted =
                      Ptr(Entry(last.key, last.value))

\* a locked key of a full cache that also holds an unlocked entry was added
\* as unlocked
C10_Witness ==
    /\ last.op = "AddOrUpdateUnlocked"
    /\ last.key \in LockedKeys(before)
    /\ LLRULen(before) = before.size
    /\ before.unlocked.items # <<>>
    /\ last.value # ValueOf(before.locked, last.key)

\* C11: AddOrUpdateLocked of a key in neither pool, with fewer than size
\* locked entries, returns ok = true and leaves the key in the locked pool
\* with the given value; it returns an evicted entry, the oldest unlocked
\* one, exactly when the cache was full (locked count + unlocked count =
\* size) before the call.
C11_AddLockedNewKey ==
    (/\ last.op = "AddOrUpdateLocked"
     /\ last.key \notin AllKeys(before)
     /\ MapLen(before.locked) < before.size) =>
        /\ last.ok
        /\ last.key \in LockedKeys(Cache)
        /\ last.key \notin UnlockedKeys(Cache)
        /\ ValueOf(locked, last.key) = last.value
        /\ last.evicted # Nil <=> LLRULen(before) = before.size
        /\ last.evicted # Nil =>
              /\ before.unlocked.items # <<>>
              /\ last.evicted[1] = Oldest(before)

\* a new key was added as locked to a full cache that already held a locked
\* entry, and the oldest unlocked entry came back
C11_Witness ==
    /\ last.op = "AddOrUpdateLocked"
    /\ last.key \notin AllKeys(before)
    /\ before.locked # <<>>
    /\ LLRULen(before) = before.size
    /\ last.evicted # Nil

\* C12: AddOrUpdateLocked of a key of the unlocked pool returns (true, nil)
\* in every state, a full cache included: the key moves to the locked pool
\* with the given value and every other entry stays where it was.
C12_AddLockedUnlockedKey ==
    (last.op = "AddOrUpdateLocked" /\ last.key \in UnlockedKeys(before)) =>
        /\ last.ok
        /\ last.evicted = Nil
        /\ last.key \in LockedKeys(Cache)
        /\ ValueOf(locked, last.key) = last.value
        /\ unlocked.items = Without(before.unlocked.items, last.key)
        /\ MapDelete(locked, last.key) = before.locked
        /\ AllKeys(Cache) = AllKeys(before)
        /\ LLRULen(Cache) = LLRULen(before)

\* in a full cache of two unlocked entries the newer one was added as locked
C12_Witness ==
    /\ last.op = "AddOrUpdateLocked"
    /\ Len(before.unlocked.items) = 2
    /\ LLRULen(before) = before.size
    /\ last.key = Newest(before).key
    /\ unlocked.items # <<>>

\* C13: AddOrUpdateLocked of a key of the locked pool returns (true, nil) in
\* every state, also when the locked pool holds size entries: the key stays
\* locked with the given value, the other locked entries and the unlocked
\* pool are as before, and nothing is evicted.
C13_AddLockedLockedKey ==
    (last.op = "AddOrUpdateLocked" /\ last.key \in LockedKeys(before)) =>
        /\ last.ok
        /\ last.evicted = Nil
        /\ last.key \in LockedKeys(Cache)
        /\ ValueOf(locked, last.key) = last.value
        /\ MapDelete(locked, last.key) = MapDelete(before.locked, last.key)
        /\ unlocked = before.unlocked
        /\ AllKeys(Cache) = AllKeys(before)

\* a key of a fully locked cache of two entries was given another value
C13_Witness ==
    /\ last.op = "AddOrUpdateLocked"
    /\ last.key \in LockedKeys(before)
    /\ MapLen(before.locked) = before.size
    /\ before.size = 2
    /\ last.value # ValueOf(before.locked, last.key)

\* C14: Lock of a key of the unlocked pool returns true and moves the key,
\* with its value, out of the unlocked pool to the end of the locked pool's
\* insertion order; the key then counts as a locked entry, so in a cache of
\* size 1 AddOrUpdateLocked of any other key returns (false, nil).
C14_LockUnlockedKey ==
    (last.op = "Lock" /\ last.key \in UnlockedKeys(before)) =>
        /\ last.ok
        /\ last.key \notin UnlockedKeys(Cache)
        /\ locked = Append(before.locked,
                           Entry(last.key, ValueOf(before.unlocked.items, last.key)))
        /\ unlocked.items = Without(before.unlocked.items, last.key)
        /\ size = 1 =>
              \A k2 \in KeySet \ {last.key}, v \in ValSet :
                  LET r == AddOrUpdateLocked(Cache, k2, v)
                  IN  ~r.ok /\ r.evicted = Nil /\ r.c = Cache

\* an unlocked entry was locked behind an entry that was already locked
C14_Witness ==
    /\ last.op = "Lock"
    /\ last.key \in UnlockedKeys(before)
    /\ before.locked # <<>>
    /\ Len(locked) = 2

\* C15: Lock of a key that is already locked returns true and changes
\* nothing: both pools with their values and orders and the lru's bound are
\* as before.
C15_LockLockedKey ==
    (last.op = "Lock" /\ last.key \in LockedKeys(before)) =>
        /\ last.ok
        /\ Cache = before

\* the older of two locked entries was locked again
C15_Witness ==
    /\ last.op = "Lock"
    /\ Len(before.locked) = 2
    /\ last.key = before.locked[1].key

\* C16: for a key in neither pool Lock returns false, Unlock returns false
\* and Get returns nil, and each of the three leaves the struct as it was.
C16_AbsentKey ==
    (last.op \in {"Lock", "Unlock", "Get"} /\ last.key \notin AllKeys(before)) =>
        /\ ~last.ok
        /\ last.rvalue = Nil
        /\ Cache = before

\* Unlock of a key in neither pool, with an entry in each pool
C16_Witness ==
    /\ last.op = "Unlock"
    /\ last.key \notin AllKeys(before)
    /\ before.locked # <<>>
    /\ before.unlocked.items # <<>>

\* the last call evicted the key from the unlocked pool for want of room
Evicted(k) ==
    /\ k \in UnlockedKeys(before)
    /\ k \notin AllKeys(Cache)
    /\ last.op \notin {"RemoveOldest", "ReplaceOldestKey", "ReplaceOldestValue"}

\* the last call was a RemoveOldest that returned the key's entry
Removed(k) ==
    /\ last.op = "RemoveOldest"
    /\ last.evicted # Nil
    /\ last.evicted[1].key = k

\* C17 as stated: Unlock of a locked key returns true and moves the key with
\* its value to the unlocked pool as the most recently used entry, evicting
\* nothing; and when the key is evicted later, no entry that was in the
\* unlocked pool at the time of the Unlock is still in it.
C17_UnlockLockedKeyAsStated ==
    /\ (last.op = "Unlock" /\ last.key \in LockedKeys(before)) =>
          /\ last.ok
          /\ unlocked.items = Append(before.unlocked.items,
                                     Entry(last.key, ValueOf(before.locked, last.key)))
          /\ locked = MapDelete(before.locked, last.key)
          /\ last.cb = <<>>
    /\ (mark.from = "locked" /\ Evicted(mark.key)) => mark.others = {}

\* C17: Unlock of a locked key returns true and moves the key with its value
\* to the unlocked pool as the most recently used entry, evicting nothing,
\* also in a full cache; and when the key is evicted later, no entry that was
\* in the unlocked pool at the time of the Unlock and has not been touched
\* since (by Get, Unlock, AddOrUpdateUnlocked or ReplaceOldestValue) is still
\* in it.
C17_UnlockLockedKey ==
    /\ (last.op = "Unlock" /\ last.key \in LockedKeys(before)) =>
          /\ last.ok
          /\ unlocked.items = Append(before.unlocked.items,
                                     Entry(last.key, ValueOf(before.locked, last.key)))
          /\ locked = MapDelete(before.locked, last.key)
          /\ last.cb = <<>>
    /\ (mark.from = "locked" /\ Evicted(mark.key)) => mark.untouched = {}

\* a key that was unlocked beside other unlocked entries has been evicted by
\* an add, after every one of those entries had left the unlocked pool
C17_Witness ==
    /\ mark.from = "locked"
    /\ mark.had
    /\ Evicted(mark.key)
    /\ last.evicted # Nil
    /\ last.evicted[1].key = mark.key
    /\ mark.others = {}

\* C18: Get, Unlock or a successful AddOrUpdateUnlocked of a key of the
\* unlocked pool makes it the most recently used unlocked entry and leaves
\* the order of the others as it was; and when that key is evicted later, or
\* returned by RemoveOldest, no entry that was in the unlocked pool at the
\* time of the call and has not been touched since is still in it.
C18_RecencyLaw ==
    /\ (last.op \in TouchOps /\ last.ok /\ last.key \in UnlockedKeys(before)) =>
          /\ Newest(Cache).key = last.key
          /\ Without(unlocked.items, last.key) = Without(before.unlocked.items, last.key)
    /\ (mark.from = "unlocked" /\ (Evicted(mark.key) \/ Removed(mark.key)))
          => mark.untouched = {}

\* a key that was touched while older unlocked entries were present has been
\* returned by RemoveOldest, after every one of those entries had left the
\* unlocked pool
C18_Witness ==
    /\ mark.from = "unlocked"
    /\ mark.had
    /\ Removed(mark.key)
    /\ mark.others = {}

\* C19: Get of a key of the cache returns the value most recently stored for
\* it by a successful AddOrUpdateUnlocked, AddOrUpdateLocked, ReplaceOldestKey
\* or ReplaceOldestValue: a Get that was just made on a present key returned
\* it, a Get made now on any present key would return it, and Lock and Unlock
\* of a present key leave the value Get returns for it as it was.
C19_GetReturnsStored ==
    /\ \A k \in AllKeys(Cache) : Get(Cache, k).value = Ptr(stored[k])
    /\ (last.op = "Get" /\ last.key \in AllKeys(before))
          => last.rvalue = Ptr(stored[last.key])
    /\ (last.op \in {"Lock", "Unlock"} /\ last.key \in AllKeys(before))
          => Get(Cache, last.key).value = Get(before, last.key).value

\* an Unlock has moved a key to the unlocked pool, beside an unlocked entry
\* that was written with another value
C19_Witness ==
    /\ last.op = "Unlock"
    /\ last.key \in LockedKeys(before)
    /\ Len(unlocked.items) >= 2
    /\ Get(Cache, last.key).value = Ptr(stored[last.key])
    /\ \E k \in UnlockedKeys(Cache) : stored[k] # stored[last.key]

\* C20: Get of a locked key returns its value and leaves the struct as it
\* was: the locked insertion order, the unlocked recency order, both key
\* sets and the lru's bound.
C20_GetLockedKey ==
    (last.op = "Get" /\ last.key \in LockedKeys(before)) =>
        /\ last.rvalue = Ptr(ValueOf(before.locked, last.key))
        /\ Cache = before

\* Get of the older of two locked entries
C20_Witness ==
    /\ last.op = "Get"
    /\ Len(before.locked) = 2
    /\ last.key = before.locked[1].key

\* C21: Contains returns true exactly when the key is in the locked pool or
\* in the unlocked pool, and leaves the whole struct as it was, so the oldest
\* unlocked entry is still the one a RemoveOldest or an eviction would take.
C21_Contains ==
    (last.op = "Contains") =>
        /\ last.ok = (last.key \in AllKeys(before))
        /\ Cache = before
        /\ RemoveOldest(Cache).evicted = RemoveOldest(before).evicted

\* Contains of the older of two unlocked entries
C21_Witness ==
    /\ last.op = "Contains"
    /\ last.ok
    /\ Len(before.unlocked.items) >= 2
    /\ last.key = Oldest(before).key
    /\ Oldest(Cache).key = last.key

C23_RemoveOldest ==
    (last.op = "RemoveOldest") =>
        /\ locked = before.locked
        /\ unlocked.size = before.unlocked.size
        /\ size = before.size
        /\ IF before.unlocked.items = <<>>
           THEN last.evicted = Nil /\ Cache = before
           ELSE /\ last.evicted = Ptr(Oldest(before))
                /\ unlocked.items = Tail(before.unlocked.items)

\* RemoveOldest on a cache whose only entries are locked
C23_Witness ==
    /\ last.op = "RemoveOldest"
    /\ before.unlocked.items = <<>>
    /\ before.locked # <<>>
    /\ last.evicted = Nil
    /\ locked = before.locked

\* C24: ReplaceOldestKey returns (nil, nil, false) exactly when newKey is in
\* one of the pools or the unlocked pool is empty, and whenever it returns
\* ok = false the struct is as it was before the call.
C24_ReplaceOldestKeyFails ==
    (last.op = "ReplaceOldestKey") =>
        /\ ~last.ok = (last.key \in AllKeys(before) \/ before.unlocked.items = <<>>)
        /\ ~last.ok => (last.rvalue = Nil /\ last.rkey = Nil /\ Cache = before)
        /\ last.ok => (last.rvalue # Nil /\ last.rkey # Nil)

\* ReplaceOldestKey with the key of the newer of two unlocked entries
C24_Witness ==
    /\ last.op = "ReplaceOldestKey"
    /\ Len(before.unlocked.items) = 2
    /\ last.key = Newest(before).key
    /\ ~last.ok
    /\ Cache = before

\* C25: when ReplaceOldestKey succeeds, the oldest unlocked entry is removed,
\* newKey is the most recently used unlocked entry with that entry's value,
\* the call returns that value, the old key and true, and nothing else
\* changes: the other unlocked entries, the locked pool, the lru's bound and
\* Len are as before.
C25_ReplaceOldestKeySucceeds ==
    (last.op = "ReplaceOldestKey" /\ last.ok) =>
        /\ unlocked.items = Append(Tail(before.unlocked.items),
                                   Entry(last.key, Oldest(before).value))
        /\ Oldest(before).key \notin AllKeys(Cache)
        /\ last.rvalue = Ptr(Oldest(before).value)
        /\ last.rkey = Ptr(Oldest(before).key)
        /\ last.evicted = Nil
        /\ locked = before.locked
        /\ unlocked.size = before.unlocked.size
        /\ LLRULen(Cache) = LLRULen(before)

\* the older of two unlocked entries got a new key and is now the newer one
C25_Witness ==
    /\ last.op = "ReplaceOldestKey"
    /\ last.ok
    /\ Len(before.unlocked.items) = 2
    /\ Oldest(Cache) = Newest(before)
    /\ Newest(Cache) = Entry(last.key, Oldest(before).value)

\* C26: ReplaceOldestValue returns (nil, nil, false) and changes nothing
\* exactly when the unlocked pool is empty; otherwise it returns the oldest
\* unlocked entry's value, its key and true, that key holds newValue and is
\* the most recently used unlocked entry, and the keys of the cache are as
\* before.
C26_ReplaceOldestValue ==
    (last.op = "ReplaceOldestValue") =>
        IF before.unlocked.items = <<>>
        THEN ~last.ok /\ last.rvalue = Nil /\ last.rkey = Nil /\ Cache = before
        ELSE /\ last.ok
             /\ last.rvalue = Ptr(Oldest(before).value)
             /\ last.rkey = Ptr(Oldest(before).key)
             /\ unlocked.items = Append(Tail(before.unlocked.items),
                                        Entry(Oldest(before).key, last.value))
             /\ locked = before.locked
             /\ AllKeys(Cache) = AllKeys(before)

\* the older of two unlocked entries got another value and is now the newer
\* one
C26_Witness ==
    /\ last.op = "ReplaceOldestValue"
    /\ last.ok
    /\ Len(before.unlocked.items) = 2
    /\ last.value # Oldest(before).value
    /\ Newest(Cache) = Entry(Oldest(before).key, last.value)
    /\ Oldest(Cache) = Newest(before)

\* C27: construction with a size that is not positive returns an error and
\* nil, and no method is ever called on a cache; construction with a positive
\* size returns no error and a cache with both pools empty whose lru has the
\* size as its bound.
C27_Construction ==
    /\ \A n \in SizeSet :
          IF n <= 0
          THEN NewUnsafeWithEvict(n).err # Nil /\ NewUnsafeWithEvict(n).cache = Nil
          ELSE /\ NewUnsafeWithEvict(n).err = Nil
               /\ NewUnsafeWithEvict(n).cache =
                     Ptr([unlocked |-> [items |-> <<>>, size |-> n],
                          locked |-> <<>>, size |-> n])
    /\ (last.op = "NewUnsafe") =>
          /\ last.ok = (last.value > 0)
          /\ last.ok => /\ unlocked.items = <<>>
                         /\ locked = <<>>
                         /\ unlocked.size = last.value
                         /\ size = last.value
                         /\ LLRULen(Cache) = 0
          /\ ~last.ok => Cache = NoCache
    /\ size <= 0 => last.op = "NewUnsafe" /\ ~last.ok

\* construction was asked for with size 0 and returned the error
C27_Witness ==
    /\ last.op = "NewUnsafe"
    /\ last.value = 0
    /\ ~last.ok
    /\ NewUnsafeWithEvict(last.value).cache = Nil

\* a goroutine is in a wrapper method with the mutex
InCriticalSection(g) == callers[g].pc \in {"holding", "inside", "returning"}

\* C28 as stated: every public operation is a method of the wrapper, and a
\* goroutine that is past lock.Lock() in a wrapper method holds the mutex, so
\* at most one is.
C28_AsStated ==
    /\ \A op \in PublicOps : op \in WrapperOps
    /\ \A g \in Goroutines : InCriticalSection(g) => lock = g

\* the struct is as the calls made one at a time have left it, and keeps
\* the bounds of the size and the pools apart
Whole(c) ==
    /\ c = seq.c
    /\ MapLen(c.locked) + c.unlocked.size = c.size
    /\ LLRULen(c) <= c.size
    /\ LockedKeys(c) \cap UnlockedKeys(c) = {}

\* C29: the calls made through the wrapper are linearizable in the order in
\* which their engine methods return: each engine method starts from the
\* struct that the calls before it leave when made one at a time, never from
\* a struct another call is part of the way through; while it runs no other
\* goroutine writes the struct; what it returns and the struct it leaves
\* are those of the call made in its turn; and between calls the struct
\* keeps the capacity bounds and the pools disjoint.
C29_Linearizable ==
    \A g \in Goroutines :
        /\ callers[g].pc = "inside" =>
              /\ Whole(callers[g].snap)
              /\ Cache = Midway(callers[g].op, callers[g].snap, callers[g].key)
        /\ callers[g].pc = "returning" =>
              /\ callers[g].ret = seq.ret
              /\ Whole(Cache)
        /\ (\A h \in Goroutines : callers[h].pc # "inside") => Whole(Cache)

\* a goroutine is part of the way through Unlock, with the key out of the
\* locked map and not yet in the lru, while another waits in lock.Lock()
C29_Witness ==
    \E g, h \in Goroutines :
        /\ callers[g].pc = "inside"
        /\ callers[g].op = "Unlock"
        /\ callers[g].key \in LockedKeys(callers[g].snap)
        /\ callers[g].key \notin AllKeys(Cache)
        /\ MapLen(locked) + unlocked.size # size
        /\ callers[h].pc = "waiting"

C31_AsStated ==
    \A g \in Goroutines :
        /\ callers[g].pc = "callback" => lock # g
        /\ callers[g].pc = "waiting" => lock # g

\* the number of times the last call handed an entry of the key to onEvicted
CallbacksFor(k) == Cardinality({i \in DOMAIN last.cb : last.cb[i].key = k})

\* C32 as stated: the last call handed to onEvicted, once each, the entries
\* it evicted from the unlocked pool for want of room, and no entry of a key
\* that is still in the cache, such as a key that Lock or AddOrUpdateLocked
\* moved from the unlocked pool to the locked pool.
C32_AsStated ==
    \A k \in KeySet :
        /\ Evicted(k) => CallbacksFor(k) = 1
        /\ k \in AllKeys(Cache) => CallbacksFor(k) = 0

\* the keys of the locked map, in its order
LockedOrder(c) == [i \in DOMAIN c.locked |-> c.locked[i].key]

\* C33 as stated: AddOrUpdateLocked of a key that is locked returns true,
\* writes the value and leaves every key of the locked map at its place, so
\* the locked values other than the key's are listed by Values in the same
\* places as before.
C33_AsStated ==
    (last.op = "AddOrUpdateLocked" /\ last.key \in LockedKeys(before)) =>
        /\ last.ok
        /\ MapGet(locked, last.key) = [value |-> last.value, ok |-> TRUE]
        /\ LockedOrder(Cache) = LockedOrder(before)
        /\ \A i \in DOMAIN locked :
              locked[i].key # last.key =>
                 Values(Cache)[Len(unlocked.items) + i] =
                    Values(before)[Len(before.unlocked.items) + i]

\* the key of the entry the last call returned as evicted, if it returned one
ReturnedEvicted == IF last.evicted = Nil THEN {} ELSE {last.evicted[1].key}

\* C34: after an AddOrUpdateUnlocked or AddOrUpdateLocked that returned true
\* the keys of the cache are those it had before and the key, less the key of
\* the entry returned as evicted: that entry was in the unlocked pool, is not
\* the key's, and no other entry has left the cache.
C34_NoSilentEviction ==
    (last.op \in AddOps /\ last.ok) =>
        /\ AllKeys(Cache) = (AllKeys(before) \cup {last.key}) \ ReturnedEvicted
        /\ ReturnedEvicted \subseteq UnlockedKeys(before)
        /\ last.key \notin ReturnedEvicted
        /\ Cardinality(AllKeys(before) \ AllKeys(Cache)) <= 1
        /\ AllKeys(before) \ AllKeys(Cache) = ReturnedEvicted

\* an add to a full cache with a locked and an unlocked entry returned the
\* unlocked entry as evicted, and the new key has its place
C34_Witness ==
    /\ last.op \in AddOps
    /\ last.ok
    /\ before.locked # <<>>
    /\ last.key \notin AllKeys(before)
    /\ last.evicted # Nil
    /\ AllKeys(Cache) = LockedKeys(before) \cup {last.key}

\* the value the cache holds for a key, in whichever pool
Held(c, k) == IF k \in LockedKeys(c) THEN ValueOf(c.locked, k) ELSE ValueOf(c.unlocked.items, k)

\* C35: Lock and Unlock leave the keys of the cache, the value of every key
\* and Len as they were, and hand nothing back as evicted; the resize in
\* Lock evicts no unlocked entry.
C35_LockUnlockKeepEntries ==
    last.op \in {"Lock", "Unlock"} =>
        /\ AllKeys(Cache) = AllKeys(before)
        /\ \A k \in AllKeys(Cache) : Held(Cache, k) = Held(before, k)
        /\ LLRULen(Cache) = LLRULen(before)
        /\ last.evicted = Nil
        /\ last.op = "Lock" =>
              UnlockedKeys(Cache) = UnlockedKeys(before) \ {last.key}

\* a Lock of an unlocked key on a full cache with another unlocked entry:
\* the lru is shrunk to hold that entry alone, which stays
C35_Witness ==
    /\ last.op = "Lock"
    /\ last.ok
    /\ last.key \in UnlockedKeys(before)
    /\ LLRULen(before) = before.size
    /\ unlocked.size = 1
    /\ Len(unlocked.items) = 1
    /\ unlocked.items[1].key # last.key

\* C36: Lock and then Unlock of a key of the unlocked pool both return true
\* and leave the keys and their values, the locked map with its order, the
\* size and the bound of the lru as they were; the other unlocked entries
\* keep their order and the key's entry is the most recently used.
C36_LockUnlockRoundTrip ==
    (last.op = "LockThenUnlock" /\ last.key \in UnlockedKeys(before)) =>
        /\ last.ok
        /\ AllKeys(Cache) = AllKeys(before)
        /\ \A k \in AllKeys(Cache) : Held(Cache, k) = Held(before, k)
        /\ locked = before.locked
        /\ size = before.size
        /\ unlocked.size = before.unlocked.size
        /\ Without(unlocked.items, last.key) = Without(before.unlocked.items, last.key)
        /\ Newest(Cache) = Entry(last.key, Held(before, last.key))

\* the round trip was made on the older of two unlocked entries of a full
\* cache, which is now the newer one
C36_Witness ==
    /\ last.op = "LockThenUnlock"
    /\ last.ok
    /\ Len(before.unlocked.items) = 2
    /\ LLRULen(before) = before.size
    /\ last.key = Oldest(before).key
    /\ Oldest(Cache).key # last.key
    /\ Newest(Cache).key = last.key

=============================================================================
